---- MODULE Spec2Model ----
(***************************************************************************)
(* Model of the ConsoleTools library (src/Example/includes/ConsoleTools.cpp)*)
(*                                                                         *)
(* A std::string is a sequence of characters, each character a one-letter  *)
(* TLA+ string; "ESC" stands for the escape character \033.  A string      *)
(* literal of the source whose inside no property looks at (the fixed      *)
(* messages of PromptNumberedMenu) is kept as one element.                 *)
(*                                                                         *)
(* One behaviour is one call of one library function: Init draws the call  *)
(* (function and arguments, and for the menu the contents of std::cin)     *)
(* from bounded sets, the actions execute it.                              *)
(***************************************************************************)
EXTENDS Integers, Sequences, FiniteSets, TLC

VARIABLES call,    \* the function called and its arguments
          pc,      \* position of the call: "start", "await_input", "typing",
                   \* "spinning", "clearing", "done", "crashed"
          out,     \* the std::string a builder returns
          ret,     \* <<v>> once PromptNumberedMenu has returned v, else <<>>
          cin,     \* lines of std::cin not yet read (end of input after them)
          cout,    \* what was written to std::cout
          cerr,    \* what was written to std::cerr
          reads,   \* number of std::getline calls made
          sleeps,  \* the durations (ms) passed to std::this_thread::sleep_for
          clock,   \* steady_clock, in ms since the call started
          checks,  \* the elapsed times PrintSpinner compared with its duration
          spinIndex \* PrintSpinner's index of the next frame

timing == <<sleeps, clock, checks, spinIndex>>

vars == <<call, pc, out, ret, cin, cout, cerr, reads, sleeps, clock, checks, spinIndex>>

----------------------------------------------------------------------------
(* Bounds of the model *)

MaxCount == 3       \* repeat counts range over -1..MaxCount
ProgressBound == 3  \* MaxProgress ranges over -2..ProgressBound
MaxWidth == 3       \* BarWidth ranges over -1..MaxWidth
MaxOptions == 11    \* at most this many menu options
MaxLines == 2       \* at most this many lines on std::cin
MaxText == 3        \* PrintTypingTextEffect types at most this many characters
MaxDelay == 2       \* its delay bounds range over -1..MaxDelay
MaxDuration == 5    \* SpinDurationMs ranges over -1..MaxDuration
MaxSpeed == 2       \* SpinSpeedMs ranges over -1..MaxSpeed
MaxJitter == 1      \* a sleep_for and the loop around it overrun by 0..MaxJitter ms
MaxStall == 2       \* at most this many checks in a row read an unchanged clock

----------------------------------------------------------------------------
(* struct Color *)

RESET        == <<"ESC", "[", "0", "m">>
RED          == <<"ESC", "[", "3", "1", "m">>
YELLOW       == <<"ESC", "[", "3", "3", "m">>
GREEN        == <<"ESC", "[", "3", "2", "m">>
CYAN         == <<"ESC", "[", "3", "6", "m">>
WHITE        == <<"ESC", "[", "3", "7", "m">>
GRAY         == <<"ESC", "[", "9", "0", "m">>
LIGHT_RED    == <<"ESC", "[", "9", "1", "m">>
LIGHT_BLUE   == <<"ESC", "[", "9", "4", "m">>
LIGHT_PURPLE == <<"ESC", "[", "9", "5", "m">>
LIGHT_CYAN   == <<"ESC", "[", "9", "6", "m">>

----------------------------------------------------------------------------
(* int arithmetic *)

INT_MAX == 2147483647
INT_MIN == -2147483647 - 1

\* for (int i = 0; i < n; i++) seg.append(ch);
RECURSIVE AppendLoop(_, _, _, _)
AppendLoop(seg, ch, i, n) ==
    IF i < n THEN AppendLoop(seg \o ch, ch, i + 1, n) ELSE seg

\* std::to_string(int) and operator<<(int): the decimal numeral, most
\* significant digit first, "-" in front of a negative value.
Digit(d) == <<"0", "1", "2", "3", "4", "5", "6", "7", "8", "9">>[d + 1]

RECURSIVE DigitsOf(_)
DigitsOf(n) ==
    IF n < 10 THEN <<Digit(n)>> ELSE DigitsOf(n \div 10) \o <<Digit(n % 10)>>

\* the digits of -n for n < 0, computed without negating n (INT_MIN)
RECURSIVE DigitsOfNeg(_)
DigitsOfNeg(n) ==
    LET d == (10 - (n % 10)) % 10
        q == IF n % 10 = 0 THEN n \div 10 ELSE (n \div 10) + 1
    IN  IF q = 0 THEN <<Digit(d)>> ELSE DigitsOfNeg(q) \o <<Digit(d)>>

to_string(n) == IF n < 0 THEN <<"-">> \o DigitsOfNeg(n) ELSE DigitsOf(n)

\* static_cast<int>(double(a) / b * k) for b # 0 is the quotient a*k / b
\* truncated toward zero.  (The double product equals the exact quotient's
\* truncation for every a, b, k the model draws; IEEE rounding first shows
\* at larger values, e.g. 29/100 * 100.)
TruncDiv(a, b) ==
    LET absa == IF a < 0 THEN -a ELSE a
        absb == IF b < 0 THEN -b ELSE b
        q    == absa \div absb
    IN  IF (a < 0) = (b < 0) THEN q ELSE -q

\* static_cast<int>(NaN): undefined behaviour.  cvttsd2si (x86) yields
\* INT_MIN, fcvtzs (ARM) yields 0.
NaNToInt == {INT_MIN, 0}

\* int a - b on 32 bits, wrapping where the subtraction overflows
Sub32(a, b) ==
    IF b = INT_MIN
    THEN IF a >= 0 THEN a + INT_MIN ELSE (a + 1) + INT_MAX
    ELSE a - b

----------------------------------------------------------------------------
(* Header *)

\* Header with the line loop running once too often (i <= LineCharacterCount)
Header_LoopLE(LineCharacter, LineCharacterCount, HeaderText, SpacingCharacter, LineColor, HeaderTextColor, SpacingCharacterColor) ==
    LET lineSegment == AppendLoop(<<>>, LineCharacter, 0, LineCharacterCount + 1)
    IN  LineColor \o lineSegment \o SpacingCharacterColor \o SpacingCharacter
        \o HeaderTextColor \o HeaderText \o SpacingCharacterColor
        \o SpacingCharacter \o LineColor \o lineSegment \o RESET

Header(LineCharacter, LineCharacterCount, HeaderText, SpacingCharacter, LineColor, HeaderTextColor, SpacingCharacterColor) ==
    LET lineSegment == AppendLoop(<<>>, LineCharacter, 0, LineCharacterCount)
        h1 == <<>> \o LineColor
        h2 == h1 \o lineSegment
        h3 == h2 \o SpacingCharacterColor
        h4 == h3 \o SpacingCharacter
        h5 == h4 \o HeaderTextColor
        h6 == h5 \o HeaderText
        h7 == h6 \o SpacingCharacterColor
        h8 == h7 \o SpacingCharacter
        h9 == h8 \o LineColor
        h10 == h9 \o lineSegment
    IN  h10 \o RESET

(* AdvancedHeader *)

\* AdvancedHeader appending Color::RESET whatever ResetColorOnEnd says
AdvancedHeader_AlwaysReset(LeftLineCharacter, LeftLineCharacterCount, RightLineCharacter, RightLineCharacterCount, HeaderText, SpacingCharacter, LeftLineColor, RightLineColor, HeaderTextColor, SpacingCharacterColor, ResetColorOnEnd) ==
    LeftLineColor
    \o AppendLoop(<<>>, LeftLineCharacter, 0, LeftLineCharacterCount)
    \o SpacingCharacterColor \o SpacingCharacter \o HeaderTextColor
    \o HeaderText \o SpacingCharacterColor \o SpacingCharacter
    \o RightLineColor
    \o AppendLoop(<<>>, RightLineCharacter, 0, RightLineCharacterCount)
    \o RESET

AdvancedHeader(LeftLineCharacter, LeftLineCharacterCount, RightLineCharacter, RightLineCharacterCount, HeaderText, SpacingCharacter, LeftLineColor, RightLineColor, HeaderTextColor, SpacingCharacterColor, ResetColorOnEnd) ==
    LET LlineSegment == AppendLoop(<<>>, LeftLineCharacter, 0, LeftLineCharacterCount)
        RlineSegment == AppendLoop(<<>>, RightLineCharacter, 0, RightLineCharacterCount)
        h1 == <<>> \o LeftLineColor
        h2 == h1 \o LlineSegment
        h3 == h2 \o SpacingCharacterColor
        h4 == h3 \o SpacingCharacter
        h5 == h4 \o HeaderTextColor
        h6 == h5 \o HeaderText
        h7 == h6 \o SpacingCharacterColor
        h8 == h7 \o SpacingCharacter
        h9 == h8 \o RightLineColor
        h10 == h9 \o RlineSegment
    IN  IF ResetColorOnEnd THEN h10 \o RESET ELSE h10

----------------------------------------------------------------------------
(* ProgressBar *)

\* ProgressBarClamp without the test CurrentProgress > MaxProgress
ProgressBarClamp_NoUpper(CurrentProgress, MaxProgress) ==
    IF CurrentProgress < 0 THEN 0 ELSE CurrentProgress

\* the two clamp tests of ProgressBar, in its order
ProgressBarClamp(CurrentProgress, MaxProgress) ==
    LET c1 == IF CurrentProgress > MaxProgress THEN MaxProgress
              ELSE CurrentProgress
    IN  IF c1 < 0 THEN 0 ELSE c1

\* ProgressBar without the two clamp tests
ProgressBar_NoClamp(CurrentProgress, MaxProgress, BarWidth, BarColor, ShowPercentage, PercentageColor, nan) ==
    LET filledWidth == IF MaxProgress = 0 THEN nan
                       ELSE TruncDiv(CurrentProgress * BarWidth, MaxProgress)
        remainingWidth == Sub32(BarWidth, filledWidth)
        percentage == IF MaxProgress = 0 THEN nan
                      ELSE TruncDiv(CurrentProgress * 100, MaxProgress)
    IN  AppendLoop(AppendLoop(BarColor, <<"#">>, 0, filledWidth),
                   <<"-">>, 0, remainingWidth) \o RESET
        \o (IF ShowPercentage
            THEN <<" ">> \o PercentageColor \o to_string(percentage)
                 \o <<"%">> \o RESET
            ELSE <<>>)

\* progress = double(CurrentProgress) / MaxProgress is not guarded: with
\* MaxProgress = 0 the clamped CurrentProgress is 0 and progress is NaN, and
\* both static_cast<int> conversions of it yield nan, one of NaNToInt.
ProgressBar(CurrentProgress, MaxProgress, BarWidth, BarColor, ShowPercentage, PercentageColor, nan) ==
    LET current == ProgressBarClamp(CurrentProgress, MaxProgress)
        filledWidth == IF MaxProgress = 0 THEN nan
                       ELSE TruncDiv(current * BarWidth, MaxProgress)
        remainingWidth == Sub32(BarWidth, filledWidth)
        b1 == <<>> \o BarColor
        b2 == AppendLoop(b1, <<"#">>, 0, filledWidth)
        b3 == AppendLoop(b2, <<"-">>, 0, remainingWidth)
        b4 == b3 \o RESET
        percentage == IF MaxProgress = 0 THEN nan
                      ELSE TruncDiv(current * 100, MaxProgress)
    IN  IF ShowPercentage
        THEN b4 \o <<" ">> \o PercentageColor \o to_string(percentage)
                \o <<"%">> \o RESET
        ELSE b4

----------------------------------------------------------------------------
(* AdvancedProgressBar *)

\* the two clamp tests of AdvancedProgressBar, in its order
AdvancedProgressBarClamp(CurrentPercentage, MaxPercentage) ==
    LET c1 == IF CurrentPercentage < 0 THEN 0 ELSE CurrentPercentage
    IN  IF c1 > MaxPercentage THEN MaxPercentage ELSE c1

\* AdvancedProgressBar appending prefix and suffix without testing empty()
AdvancedProgressBar_NoEmptyTest(CurrentPercentage, MaxPercentage, BarWidth, PrefixText, SuffixText, FillChar, UnfilledChar, FillColor, UnfilledColor, TextColor, PrefixColor, SuffixColor, BracketColor, ShowPercentage, ShowBrackets, ResetColorOnCompletion) ==
    LET current == AdvancedProgressBarClamp(CurrentPercentage, MaxPercentage)
        filledWidth == IF MaxPercentage # 0
                       THEN TruncDiv(current * BarWidth, MaxPercentage) ELSE 0
        percentageValue == IF MaxPercentage # 0
                           THEN TruncDiv(current * 100, MaxPercentage) ELSE 0
    IN  PrefixColor \o PrefixText
        \o (IF ShowBrackets THEN BracketColor \o <<"[">> ELSE <<>>)
        \o AppendLoop(FillColor, FillChar, 0, filledWidth)
        \o AppendLoop(UnfilledColor, UnfilledChar, 0, BarWidth - filledWidth)
        \o (IF ShowBrackets THEN BracketColor \o <<"]">> ELSE <<>>)
        \o (IF ShowPercentage
            THEN TextColor \o <<" ">> \o to_string(percentageValue) \o <<"%">>
            ELSE <<>>)
        \o <<" ">> \o SuffixColor \o SuffixText
        \o (IF ResetColorOnCompletion THEN RESET ELSE <<>>)

AdvancedProgressBar(CurrentPercentage, MaxPercentage, BarWidth, PrefixText, SuffixText, FillChar, UnfilledChar, FillColor, UnfilledColor, TextColor, PrefixColor, SuffixColor, BracketColor, ShowPercentage, ShowBrackets, ResetColorOnCompletion) ==
    LET current == AdvancedProgressBarClamp(CurrentPercentage, MaxPercentage)
        \* progress = (MaxPercentage != 0) ? double(current) / Max : 0.0
        filledWidth == IF MaxPercentage # 0
                       THEN TruncDiv(current * BarWidth, MaxPercentage) ELSE 0
        remainingWidth == BarWidth - filledWidth
        r1 == IF PrefixText # <<>> THEN <<>> \o PrefixColor \o PrefixText
              ELSE <<>>
        r2 == IF ShowBrackets THEN r1 \o BracketColor \o <<"[">> ELSE r1
        r3 == AppendLoop(r2 \o FillColor, FillChar, 0, filledWidth)
        r4 == AppendLoop(r3 \o UnfilledColor, UnfilledChar, 0, remainingWidth)
        r5 == IF ShowBrackets THEN r4 \o BracketColor \o <<"]">> ELSE r4
        percentageValue == IF MaxPercentage # 0
                           THEN TruncDiv(current * 100, MaxPercentage) ELSE 0
        r6 == IF ShowPercentage
              THEN r5 \o TextColor \o <<" ">> \o to_string(percentageValue)
                      \o <<"%">>
              ELSE r5
        r7 == IF SuffixText # <<>>
              THEN r6 \o <<" ">> \o SuffixColor \o SuffixText
              ELSE r6
    IN  IF ResetColorOnCompletion THEN r7 \o RESET ELSE r7

----------------------------------------------------------------------------
(* std::stoi, as PromptNumberedMenu uses it (base 10, no end position) *)

Whitespace == {" ", "\t", "\n", "\r", "\f"}   \* (and the vertical tab)
Digits == {"0", "1", "2", "3", "4", "5", "6", "7", "8", "9"}
DigitValue(ch) == CHOOSE d \in 0..9 : Digit(d) = ch

RECURSIVE SkipSpaces(_, _)
SkipSpaces(s, i) ==
    IF i <= Len(s) /\ s[i] \in Whitespace THEN SkipSpaces(s, i + 1) ELSE i

\* The digits from position i on, accumulated as the negated value so that
\* INT_MIN is reachable; ovf once the value has left the range of int.
RECURSIVE ParseDigits(_, _, _, _, _)
ParseDigits(s, i, acc, ovf, any) ==
    IF i <= Len(s) /\ s[i] \in Digits
    THEN LET d == DigitValue(s[i])
             fits == ~ovf /\ acc >= (INT_MIN + d + 9) \div 10
         IN  ParseDigits(s, i + 1, IF fits THEN acc * 10 - d ELSE acc,
                         ~fits, TRUE)
    ELSE [acc |-> acc, ovf |-> ovf, any |-> any]

\* leading whitespace is skipped, one sign is accepted, the longest run of
\* digits is converted and what follows it is ignored; no digit at all
\* throws std::invalid_argument, a value outside int std::out_of_range.
stoi(s) ==
    LET i == SkipSpaces(s, 1)
        neg == i <= Len(s) /\ s[i] = "-"
        j == IF i <= Len(s) /\ s[i] \in {"-", "+"} THEN i + 1 ELSE i
        p == ParseDigits(s, j, 0, FALSE, FALSE)
    IN  IF ~p.any THEN [kind |-> "invalid_argument"]
        ELSE IF p.ovf \/ (~neg /\ p.acc = INT_MIN)
             THEN [kind |-> "out_of_range"]
        ELSE [kind |-> "ok", value |-> IF neg THEN p.acc ELSE -p.acc]

----------------------------------------------------------------------------
(* The calls Init draws from *)

HeaderCalls ==
    [fn : {"Header"},
     LineCharacter : {<<"=">>, <<>>, <<"0", "m">>},
     LineCharacterCount : -1..MaxCount,
     HeaderText : {<<"H", "I">>, <<>>},
     SpacingCharacter : {<<" ">>},
     LineColor : {CYAN, <<"ESC", "[">>},
     HeaderTextColor : {YELLOW},
     SpacingCharacterColor : {GREEN, RESET}]

AdvancedHeaderCalls ==
    [fn : {"AdvancedHeader"},
     LeftLineCharacter : {<<"=">>},
     LeftLineCharacterCount : -1..MaxCount,
     RightLineCharacter : {<<"-">>, <<>>, <<"0", "m">>},
     RightLineCharacterCount : -1..MaxCount,
     HeaderText : {<<"H", "I">>},
     SpacingCharacter : {<<" ">>, <<>>},
     LeftLineColor : {LIGHT_BLUE},
     RightLineColor : {LIGHT_PURPLE, RESET, <<"ESC", "[">>},
     HeaderTextColor : {GREEN},
     SpacingCharacterColor : {YELLOW, RESET},
     ResetColorOnEnd : BOOLEAN]

\* With MaxProgress = 0 and filledWidth = INT_MIN a negative BarWidth makes
\* remainingWidth about 2^31 and the bar as long; those calls are left out.
ProgressBarCalls ==
    {c \in [fn : {"ProgressBar"},
            CurrentProgress : -2..(ProgressBound + 1),
            MaxProgress : -2..ProgressBound,
            BarWidth : -1..MaxWidth,
            BarColor : {GREEN},
            ShowPercentage : BOOLEAN,
            PercentageColor : {LIGHT_CYAN}] :
        c.MaxProgress = 0 => c.BarWidth >= 0}

AdvancedProgressBarCalls ==
    [fn : {"AdvancedProgressBar"},
     CurrentPercentage : -2..(ProgressBound + 1),
     MaxPercentage : -2..ProgressBound,
     BarWidth : -1..MaxWidth,
     PrefixText : {<<>>, <<"L">>},
     SuffixText : {<<>>, <<"C">>},
     FillChar : {<<"#">>},
     UnfilledChar : {<<"-">>},
     FillColor : {GREEN},
     UnfilledColor : {GRAY},
     TextColor : {WHITE},
     PrefixColor : {YELLOW, RED},
     SuffixColor : {LIGHT_BLUE},
     BracketColor : {RED},
     ShowPercentage : BOOLEAN,
     ShowBrackets : BOOLEAN,
     ResetColorOnCompletion : BOOLEAN]

\* n options "A", "B", "A", ...
MenuOptions(n) == [i \in 1..n |-> IF i % 2 = 1 THEN <<"A">> ELSE <<"B">>]

\* the lines a user may type: the numerals 0..MaxOptions+1 and some others
InputLines ==
    {to_string(v) : v \in 0..(MaxOptions + 1)}
    \cup {<<>>, <<"a", "b", "c">>, <<"-">>, <<" ", "2">>, <<"2", "x">>,
          <<"-", "1">>, <<"+", "1">>,
          <<"2", "1", "4", "7", "4", "8", "3", "6", "4", "8">>,
          <<"9", "9", "9", "9", "9", "9", "9", "9", "9", "9", "9">>}

RECURSIVE SeqsUpTo(_, _)
SeqsUpTo(S, n) ==
    IF n = 0 THEN {<<>>}
    ELSE LET shorter == SeqsUpTo(S, n - 1)
         IN  shorter \cup {Append(q, x) : q \in shorter, x \in S}

\* stdin: what std::cin holds when the call is made
PromptNumberedMenuCalls ==
    [fn : {"PromptNumberedMenu"},
     Options : {MenuOptions(n) : n \in 0..MaxOptions},
     SeperatorCharacter : {<<":", " ">>},
     PromptMessage : {<<"P">>},
     InputQuestionText : {<<"Q">>},
     MessageColor : {WHITE},
     NumberColor : {LIGHT_BLUE},
     SeperatorColor : {GREEN},
     OptionColor : {YELLOW},
     InputQuestionColor : {LIGHT_PURPLE},
     ErrorColor : {LIGHT_RED},
     stdin : SeqsUpTo(InputLines, MaxLines)]

PrintTypingTextEffectCalls ==
    [fn : {"PrintTypingTextEffect"},
     Text : {SubSeq(<<"a", "b", "c", "d", "e", "f">>, 1, n) : n \in 0..MaxText},
     MinDelayMilliseconds : -1..MaxDelay,
     MaxDelayMilliseconds : -1..MaxDelay]

PrintSpinnerCalls ==
    [fn : {"PrintSpinner"},
     SpinDurationMs : -1..MaxDuration,
     SpinSpeedMs : -1..MaxSpeed]

Calls ==
    HeaderCalls \cup AdvancedHeaderCalls \cup ProgressBarCalls
    \cup AdvancedProgressBarCalls \cup PromptNumberedMenuCalls
    \cup PrintTypingTextEffectCalls \cup PrintSpinnerCalls

----------------------------------------------------------------------------
(* The state machine *)

Init ==
    /\ call \in Calls
    /\ pc = "start"
    /\ out = <<>>
    /\ ret = <<>>
    /\ cin = IF call.fn = "PromptNumberedMenu" THEN call.stdin ELSE <<>>
    /\ cout = <<>>
    /\ cerr = <<>>
    /\ reads = 0
    /\ sleeps = <<>>
    /\ clock = 0
    /\ checks = <<>>
    /\ spinIndex = 0

HeaderCall ==
    /\ pc = "start"
    /\ call.fn = "Header"
    /\ out' = Header(call.LineCharacter, call.LineCharacterCount,
                     call.HeaderText, call.SpacingCharacter, call.LineColor,
                     call.HeaderTextColor, call.SpacingCharacterColor)
    /\ pc' = "done"
    /\ UNCHANGED <<timing, call, ret, cin, cout, cerr, reads>>

AdvancedHeaderCall ==
    /\ pc = "start"
    /\ call.fn = "AdvancedHeader"
    /\ out' = AdvancedHeader(call.LeftLineCharacter, call.LeftLineCharacterCount,
                             call.RightLineCharacter, call.RightLineCharacterCount,
                             call.HeaderText, call.SpacingCharacter,
                             call.LeftLineColor, call.RightLineColor,
                             call.HeaderTextColor, call.SpacingCharacterColor,
                             call.ResetColorOnEnd)
    /\ pc' = "done"
    /\ UNCHANGED <<timing, call, ret, cin, cout, cerr, reads>>

ProgressBarCall ==
    /\ pc = "start"
    /\ call.fn = "ProgressBar"
    /\ \E nan \in NaNToInt :
          out' = ProgressBar(call.CurrentProgress, call.MaxProgress,
                             call.BarWidth, call.BarColor,
                             call.ShowPercentage, call.PercentageColor, nan)
    /\ pc' = "done"
    /\ UNCHANGED <<timing, call, ret, cin, cout, cerr, reads>>

AdvancedProgressBarCall ==
    /\ pc = "start"
    /\ call.fn = "AdvancedProgressBar"
    /\ out' = AdvancedProgressBar(call.CurrentPercentage, call.MaxPercentage,
                 call.BarWidth, call.PrefixText, call.SuffixText,
                 call.FillChar, call.UnfilledChar, call.FillColor,
                 call.UnfilledColor, call.TextColor, call.PrefixColor,
                 call.SuffixColor, call.BracketColor, call.ShowPercentage,
                 call.ShowBrackets, call.ResetColorOnCompletion)
    /\ pc' = "done"
    /\ UNCHANGED <<timing, call, ret, cin, cout, cerr, reads>>

\* PrintOptions numbering the options from 0 (i instead of i + 1)
RECURSIVE PrintOptions_ZeroBased(_, _)
PrintOptions_ZeroBased(stream, i) ==
    IF i <= Len(call.Options)
    THEN PrintOptions_ZeroBased(stream \o call.NumberColor \o to_string(i - 1)
                             \o call.SeperatorColor \o call.SeperatorCharacter
                             \o call.OptionColor \o call.Options[i]
                             \o RESET \o <<"\n">>,
                      i + 1)
    ELSE stream

\* for (size_t i = 0; i < Options.size(); i++) std::cout << ... << std::endl;
\* (i counts from 1 here, as the sequence Options does)
RECURSIVE PrintOptions(_, _)
PrintOptions(stream, i) ==
    IF i <= Len(call.Options)
    THEN PrintOptions(stream \o call.NumberColor \o to_string(i)
                             \o call.SeperatorColor \o call.SeperatorCharacter
                             \o call.OptionColor \o call.Options[i]
                             \o RESET \o <<"\n">>,
                      i + 1)
    ELSE stream

\* PromptNumberedMenuStart without the test of Options.empty()
PromptNumberedMenuStart_NoEmptyTest ==
    /\ pc = "start"
    /\ call.fn = "PromptNumberedMenu"
    /\ cout' = PrintOptions(cout \o call.MessageColor \o call.PromptMessage
                                 \o <<"\n">>, 1)
                \o call.InputQuestionColor \o <<"\n">>
                \o call.InputQuestionText \o call.NumberColor
    /\ pc' = "await_input"
    /\ UNCHANGED <<timing, call, out, ret, cin, cerr, reads>>

\* PromptNumberedMenu from its entry to the std::getline it blocks in
PromptNumberedMenuStart ==
    /\ pc = "start"
    /\ call.fn = "PromptNumberedMenu"
    /\ IF call.Options = <<>>
       THEN /\ cerr' = cerr \o <<"No menu options provided.\n">>
            /\ ret' = <<-1>>
            /\ pc' = "done"
            /\ UNCHANGED cout
       ELSE /\ cout' = PrintOptions(cout \o call.MessageColor
                                         \o call.PromptMessage \o <<"\n">>, 1)
                        \o call.InputQuestionColor \o <<"\n">>
                        \o call.InputQuestionText \o call.NumberColor
            /\ pc' = "await_input"
            /\ UNCHANGED <<cerr, ret>>
    /\ UNCHANGED <<timing, call, out, cin, reads>>

\* HandleInput returning the 1-based choice instead of choice - 1
HandleInput_OneBased(input) ==
    LET r == stoi(input)
    IN  /\ cout' = cout \o RESET
        /\ ret' = IF r.kind = "ok" /\ r.value >= 1 /\ r.value <= Len(call.Options)
                  THEN <<r.value>> ELSE <<-1>>

\* HandleInput without the test choice > Options.size()
HandleInput_NoUpperBound(input) ==
    LET r == stoi(input)
    IN  /\ cout' = cout \o RESET
        /\ ret' = IF r.kind = "ok" /\ r.value >= 1
                  THEN <<r.value - 1>> ELSE <<-1>>

\* what PromptNumberedMenu does with the line it has read; it returns in
\* every case, -1 after each of the three error messages
HandleInput(input) ==
    LET r == stoi(input)
        size == Len(call.Options)
    IN  IF r.kind = "ok"
        THEN IF r.value < 1 \/ r.value > size
             THEN /\ cout' = cout \o call.ErrorColor
                      \o <<"Invalid choice. Please enter a number between 1 and ">>
                      \o to_string(size) \o <<".\n\n">> \o RESET \o RESET
                  /\ ret' = <<-1>>
             ELSE /\ cout' = cout \o RESET
                  /\ ret' = <<r.value - 1>>
        ELSE IF r.kind = "invalid_argument"
        THEN /\ cout' = cout \o call.ErrorColor
                 \o <<"Invalid input. Please enter a numeric value.\n\n">>
                 \o RESET \o RESET
             /\ ret' = <<-1>>
        ELSE /\ cout' = cout \o call.ErrorColor
                 \o <<"The number you entered is out of range. Please try again.\n\n">>
                 \o RESET \o RESET
             /\ ret' = <<-1>>

\* PromptNumberedMenuRead taking a failed std::getline for an empty line
PromptNumberedMenuRead_IgnoreFail ==
    /\ pc = "await_input"
    /\ reads' = reads + 1
    /\ cin' = IF cin = <<>> THEN cin ELSE Tail(cin)
    /\ HandleInput(IF cin = <<>> THEN <<>> ELSE Head(cin))
    /\ pc' = "done"
    /\ UNCHANGED <<timing, call, out, cerr>>

\* PromptNumberedMenuRead going back to std::getline after a line that is
\* not a valid choice
PromptNumberedMenuRead_Retry ==
    /\ pc = "await_input"
    /\ reads' = reads + 1
    /\ IF cin = <<>>
       THEN /\ cout' = cout \o call.ErrorColor \o RESET
            /\ cerr' = cerr \o <<"Input error. Exiting.\n">>
            /\ ret' = <<-1>>
            /\ pc' = "done"
            /\ UNCHANGED cin
       ELSE /\ cin' = Tail(cin)
            /\ cout' = cout \o RESET
            /\ LET r == stoi(Head(cin))
               IN  IF r.kind = "ok" /\ r.value \in 1..Len(call.Options)
                   THEN ret' = <<r.value - 1>> /\ pc' = "done"
                   ELSE ret' = ret /\ pc' = "await_input"
            /\ UNCHANGED cerr
    /\ UNCHANGED <<timing, call, out>>

\* PromptNumberedMenu from std::getline to its return
PromptNumberedMenuRead ==
    /\ pc = "await_input"
    /\ reads' = reads + 1
    /\ IF cin = <<>>
       THEN /\ cout' = cout \o call.ErrorColor \o RESET
            /\ cerr' = cerr \o <<"Input error. Exiting.\n">>
            /\ ret' = <<-1>>
            /\ UNCHANGED cin
       ELSE /\ cin' = Tail(cin)
            /\ HandleInput(Head(cin))
            /\ UNCHANGED cerr
    /\ pc' = "done"
    /\ UNCHANGED <<timing, call, out>>

----------------------------------------------------------------------------
(* PrintTypingTextEffect *)

\* dist(gen) for std::uniform_int_distribution<int> dist(a, b).  a <= b is
\* the precondition of the distribution; with a > b the behaviour is
\* undefined: the call of dist(gen) crashes (libstdc++ recurses without end,
\* or aborts on its assertion _M_a <= _M_b) or returns some int.
DelaysDrawn(a, b) ==
    IF a <= b THEN a..b
    ELSE (-1..(MaxDelay + 1)) \cup {INT_MIN, INT_MAX}

DrawCrashes(a, b) == a > b

\* one iteration of `for (char c : Text)`: draw the delay, write c, sleep
PrintTypingTextEffectChar ==
    /\ pc \in {"start", "typing"}
    /\ call.fn = "PrintTypingTextEffect"
    /\ Len(cout) < Len(call.Text)
    /\ \E delay \in DelaysDrawn(call.MinDelayMilliseconds,
                                call.MaxDelayMilliseconds) :
          sleeps' = Append(sleeps, delay)
    /\ cout' = Append(cout, call.Text[Len(cout) + 1])
    /\ pc' = "typing"
    /\ UNCHANGED <<call, out, ret, cin, cerr, reads, clock, checks, spinIndex>>

\* the undefined distribution ends the process: where it is constructed
\* (the assertion) or where a delay is drawn from it
PrintTypingTextEffectCrash ==
    /\ pc \in {"start", "typing"}
    /\ call.fn = "PrintTypingTextEffect"
    /\ pc = "start" \/ Len(cout) < Len(call.Text)
    /\ DrawCrashes(call.MinDelayMilliseconds, call.MaxDelayMilliseconds)
    /\ pc' = "crashed"
    /\ UNCHANGED <<call, out, ret, cin, cout, cerr, reads, timing>>

\* the loop has run through Text: the function returns
PrintTypingTextEffectReturn ==
    /\ pc \in {"start", "typing"}
    /\ call.fn = "PrintTypingTextEffect"
    /\ Len(cout) = Len(call.Text)
    /\ pc' = "done"
    /\ UNCHANGED <<call, out, ret, cin, cout, cerr, reads, timing>>

----------------------------------------------------------------------------
(* PrintSpinner *)

spinChars == <<"|", "/", "-", "\\">>

\* the milliseconds steady_clock advances over one iteration: the sleep_for
\* (nothing for a duration <= 0) and an overrun; the clock does advance, so
\* no more than MaxStall checks in a row read the same millisecond
Advances ==
    LET slept == IF call.SpinSpeedMs > 0 THEN call.SpinSpeedMs ELSE 0
        stalled == Cardinality({i \in 1..Len(checks) : checks[i] = clock})
    IN  {slept + j : j \in 0..MaxJitter} \ (IF stalled >= MaxStall THEN {0} ELSE {})

\* PrintSpinnerFrame resetting spinIndex one frame early (spinIndex == 3)
PrintSpinnerFrame_WrapAt3 ==
    /\ pc \in {"start", "spinning"}
    /\ call.fn = "PrintSpinner"
    /\ cout' = cout \o <<"\r", spinChars[spinIndex + 1]>>
    /\ spinIndex' = IF spinIndex + 1 = 3 THEN 0 ELSE spinIndex + 1
    /\ sleeps' = Append(sleeps, call.SpinSpeedMs)
    /\ \E adv \in Advances :
          /\ clock' = clock + adv
          /\ checks' = Append(checks, clock + adv)
          /\ pc' = IF clock + adv >= call.SpinDurationMs THEN "clearing"
                   ELSE "spinning"
    /\ UNCHANGED <<call, out, ret, cin, cerr, reads>>

\* one iteration of while (true): draw the frame, step spinIndex, sleep,
\* read the clock and compare the elapsed time with SpinDurationMs
PrintSpinnerFrame ==
    /\ pc \in {"start", "spinning"}
    /\ call.fn = "PrintSpinner"
    /\ cout' = cout \o <<"\r", spinChars[spinIndex + 1]>>
    /\ spinIndex' = IF spinIndex + 1 = 4 THEN 0 ELSE spinIndex + 1
    /\ sleeps' = Append(sleeps, call.SpinSpeedMs)
    /\ \E adv \in Advances :
          /\ clock' = clock + adv
          /\ checks' = Append(checks, clock + adv)
          /\ pc' = IF clock + adv >= call.SpinDurationMs THEN "clearing"
                   ELSE "spinning"
    /\ UNCHANGED <<call, out, ret, cin, cerr, reads>>

\* after the break: std::cout << "\r " << std::endl, and return
PrintSpinnerClear ==
    /\ pc = "clearing"
    /\ call.fn = "PrintSpinner"
    /\ cout' = cout \o <<"\r", " ", "\n">>
    /\ pc' = "done"
    /\ UNCHANGED <<call, out, ret, cin, cerr, reads, timing>>

Next ==
    \/ PrintTypingTextEffectChar
    \/ PrintTypingTextEffectCrash
    \/ PrintTypingTextEffectReturn
    \/ PrintSpinnerFrame
    \/ PrintSpinnerClear
    \/ PromptNumberedMenuStart
    \/ PromptNumberedMenuRead
    \/ HeaderCall
    \/ AdvancedHeaderCall
    \/ ProgressBarCall
    \/ AdvancedProgressBarCall

Spec == Init /\ [][Next]_vars

\* One call of PrintSpinner alone.  The library is single-threaded and every
\* step of the call is taken once it can be: the write and the sleep_for
\* return.
SpinnerInit == Init /\ call.fn = "PrintSpinner"

SpinnerNext ==
    \/ PrintSpinnerFrame
    \/ PrintSpinnerClear

SpinnerSpec == SpinnerInit /\ [][SpinnerNext]_vars /\ WF_vars(SpinnerNext)

----------------------------------------------------------------------------
(* Vocabulary of the properties *)

EndsWith(s, t) ==
    /\ Len(s) >= Len(t)
    /\ SubSeq(s, Len(s) - Len(t) + 1, Len(s)) = t

\* s written n times in a row (nothing for n <= 0), by position
Rep(s, n) ==
    IF n <= 0 \/ Len(s) = 0 THEN <<>>
    ELSE [i \in 1..(n * Len(s)) |-> s[((i - 1) % Len(s)) + 1]]

Returned(fn) == pc = "done" /\ call.fn = fn

\* t occurs in s as a contiguous substring
Contains(s, t) ==
    \E i \in 1..(Len(s) - Len(t) + 1) : SubSeq(s, i, i + Len(t) - 1) = t

\* number of positions of s holding the character ch
CountChar(s, ch) == Cardinality({i \in 1..Len(s) : s[i] = ch})

----------------------------------------------------------------------------
(* Vocabulary of the PromptNumberedMenu properties *)

MenuReturned == Returned("PromptNumberedMenu")

\* line is the decimal numeral of an integer in [1, Options.size()]
ValidChoices == 1..Len(call.Options)
IsNumeralOfChoice(line, v) == v \in ValidChoices /\ line = to_string(v)

OutOfRangeMessage ==
    <<"Invalid choice. Please enter a number between 1 and ">>

----------------------------------------------------------------------------
(* C1 as stated: with options, when the first line parses as an integer   *)
(* outside [1, Options.size()] the menu reports it and reads another      *)
(* line, and when that second line is the numeral of a valid choice v the *)
(* call returns v - 1.                                                    *)
C1_OutOfRangeRetries ==
    MenuReturned /\ call.Options # <<>> /\ Len(call.stdin) >= 2
    /\ stoi(call.stdin[1]).kind = "ok"
    /\ stoi(call.stdin[1]).value \notin ValidChoices =>
        /\ Contains(cout, OutOfRangeMessage)
        /\ \A v \in ValidChoices :
              call.stdin[2] = to_string(v) => reads = 2 /\ ret = <<v - 1>>

----------------------------------------------------------------------------
(* C2 as stated: with options, a first line that does not parse as an int *)
(* (no digits, or a value too large) does not end the call: the menu      *)
(* reads another line, and when that line is the numeral of a valid       *)
(* choice v the call returns v - 1.                                       *)
C2_ParseFailureRetries ==
    MenuReturned /\ call.Options # <<>> /\ Len(call.stdin) >= 2
    /\ stoi(call.stdin[1]).kind # "ok" =>
        \A v \in ValidChoices :
            call.stdin[2] = to_string(v) => reads = 2 /\ ret = <<v - 1>>

----------------------------------------------------------------------------
(* C3: with options, when the first line on std::cin is the decimal       *)
(* numeral of an integer v with 1 <= v <= Options.size(), the call        *)
(* returns v - 1.                                                         *)
C3_ValidChoiceReturnsIndex ==
    MenuReturned /\ call.Options # <<>> /\ call.stdin # <<>> =>
        \A v \in ValidChoices :
            call.stdin[1] = to_string(v) => ret = <<v - 1>>

C3_Witness ==
    /\ MenuReturned
    /\ Len(call.Options) = MaxOptions
    /\ call.stdin # <<>>
    /\ call.stdin[1] = <<"1", "1">>
    /\ ret = <<10>>

----------------------------------------------------------------------------
(* C4: called with no options PromptNumberedMenu returns -1 at once: it   *)
(* writes the error to std::cerr, reads nothing (std::cin is as it was)   *)
(* and writes nothing, neither prompt nor question, to std::cout.         *)
C4_EmptyOptions ==
    MenuReturned /\ call.Options = <<>> =>
        /\ ret = <<-1>>
        /\ reads = 0
        /\ cin = call.stdin
        /\ cout = <<>>
        /\ cerr = <<"No menu options provided.\n">>

C4_Witness ==
    /\ MenuReturned
    /\ call.Options = <<>>
    /\ Len(call.stdin) = 2
    /\ call.stdin[1] = <<"1">>
    /\ ret = <<-1>>

----------------------------------------------------------------------------
(* C5: with options, when std::getline obtains no line (std::cin is       *)
(* exhausted) the call reports the error and returns -1 after that one    *)
(* read attempt.                                                          *)
C5_InputFailure ==
    MenuReturned /\ call.Options # <<>> /\ call.stdin = <<>> =>
        /\ ret = <<-1>>
        /\ reads = 1
        /\ cerr = <<"Input error. Exiting.\n">>

C5_Witness ==
    /\ MenuReturned
    /\ Len(call.Options) = 2
    /\ call.stdin = <<>>
    /\ reads = 1
    /\ ret = <<-1>>

----------------------------------------------------------------------------
(* C6 as stated: ProgressBar with MaxProgress = 0 treats progress as 0:   *)
(* no filled cell, BarWidth unfilled cells, and a percentage, when shown, *)
(* of 0%.                                                                 *)
C6_ZeroMaxRendersZero ==
    Returned("ProgressBar") /\ call.MaxProgress = 0 =>
        out = call.BarColor \o Rep(<<"-">>, call.BarWidth) \o RESET
              \o (IF call.ShowPercentage
                  THEN <<" ">> \o call.PercentageColor \o <<"0", "%">> \o RESET
                  ELSE <<>>)

----------------------------------------------------------------------------
(* C7: for MaxProgress >= 1 and BarWidth >= 0, ProgressBar renders a      *)
(* CurrentProgress below 0 as it renders 0 and a CurrentProgress above    *)
(* MaxProgress as it renders MaxProgress, the other arguments being the   *)
(* same.                                                                  *)
C7_ClampedRendering ==
    Returned("ProgressBar") /\ call.MaxProgress >= 1 /\ call.BarWidth >= 0 =>
        LET Render(c) == ProgressBar(c, call.MaxProgress, call.BarWidth,
                                     call.BarColor, call.ShowPercentage,
                                     call.PercentageColor, 0)
        IN  /\ call.CurrentProgress < 0 => out = Render(0)
            /\ call.CurrentProgress > call.MaxProgress
                  => out = Render(call.MaxProgress)

C7_Witness ==
    /\ Returned("ProgressBar")
    /\ call.MaxProgress = 2
    /\ call.BarWidth = 3
    /\ call.CurrentProgress = -2
    /\ call.ShowPercentage
    /\ out = call.BarColor \o <<"-", "-", "-">> \o RESET \o <<" ">>
             \o call.PercentageColor \o <<"0", "%">> \o RESET

----------------------------------------------------------------------------
(* C9: with an empty PrefixText and an empty SuffixText AdvancedProgressBar*)
(* emits neither PrefixColor nor SuffixColor nor the space before the     *)
(* suffix, whatever the three flags: the result is what it is with both   *)
(* colors empty, it does not contain a prefix or suffix color that no     *)
(* other field uses, and its only space is the one of the percentage.     *)
C9_EmptyAffixesEmitNothing ==
    Returned("AdvancedProgressBar")
    /\ call.PrefixText = <<>> /\ call.SuffixText = <<>> =>
        LET others == {call.FillColor, call.UnfilledColor, call.TextColor,
                       call.BracketColor}
        IN  /\ out = AdvancedProgressBar(call.CurrentPercentage,
                        call.MaxPercentage, call.BarWidth, <<>>, <<>>,
                        call.FillChar, call.UnfilledChar, call.FillColor,
                        call.UnfilledColor, call.TextColor, <<>>, <<>>,
                        call.BracketColor, call.ShowPercentage,
                        call.ShowBrackets, call.ResetColorOnCompletion)
            /\ call.PrefixColor \notin others => ~Contains(out, call.PrefixColor)
            /\ call.SuffixColor \notin others => ~Contains(out, call.SuffixColor)
            /\ CountChar(out, " ") = IF call.ShowPercentage THEN 1 ELSE 0

C9_Witness ==
    /\ Returned("AdvancedProgressBar")
    /\ call.PrefixText = <<>> /\ call.SuffixText = <<>>
    /\ call.PrefixColor = YELLOW
    /\ call.ShowPercentage /\ call.ShowBrackets /\ call.ResetColorOnCompletion
    /\ call.CurrentPercentage = 1 /\ call.MaxPercentage = 2 /\ call.BarWidth = 2
    /\ out = call.BracketColor \o <<"[">> \o call.FillColor \o <<"#">>
             \o call.UnfilledColor \o <<"-">> \o call.BracketColor \o <<"]">>
             \o call.TextColor \o <<" ", "5", "0", "%">> \o RESET

----------------------------------------------------------------------------
(* C8 as stated: AdvancedHeader's result ends with the RESET sequence     *)
(* exactly when ResetColorOnEnd is true, whatever strings the caller      *)
(* passes.                                                                *)
C8_AsStated ==
    Returned("AdvancedHeader") =>
        (EndsWith(out, RESET) <=> call.ResetColorOnEnd)

(* C8, amended: with ResetColorOnEnd the result ends with RESET; without  *)
(* it the function adds no RESET of its own: the result is the            *)
(* ResetColorOnEnd = true result less its final RESET, i.e. the ten       *)
(* caller-supplied pieces and nothing after them.                         *)
C8_ResetOnlyOnFlag ==
    Returned("AdvancedHeader") =>
        LET withReset ==
                AdvancedHeader(call.LeftLineCharacter, call.LeftLineCharacterCount,
                               call.RightLineCharacter, call.RightLineCharacterCount,
                               call.HeaderText, call.SpacingCharacter,
                               call.LeftLineColor, call.RightLineColor,
                               call.HeaderTextColor, call.SpacingCharacterColor,
                               TRUE)
        IN  /\ call.ResetColorOnEnd => EndsWith(out, RESET)
            /\ ~call.ResetColorOnEnd =>
                   /\ out \o RESET = withReset
                   /\ EndsWith(out, call.RightLineColor
                                      \o Rep(call.RightLineCharacter,
                                             call.RightLineCharacterCount))

C8_Witness ==
    /\ Returned("AdvancedHeader")
    /\ ~call.ResetColorOnEnd
    /\ call.RightLineCharacterCount = 2
    /\ call.RightLineCharacter = <<"-">>
    /\ ~EndsWith(out, RESET)

----------------------------------------------------------------------------
(* C10: Header returns exactly LineColor, the line character repeated     *)
(* LineCharacterCount times (no times for a count below 1), the spacing   *)
(* color and character, the text color and text, the spacing color and    *)
(* character again, LineColor and the repeated line again, then RESET; so *)
(* a negative count gives two empty segments and the result always ends   *)
(* with RESET.                                                            *)
C10_HeaderExact ==
    Returned("Header") =>
        LET line == Rep(call.LineCharacter, call.LineCharacterCount)
        IN  /\ out = call.LineColor \o line
                      \o call.SpacingCharacterColor \o call.SpacingCharacter
                      \o call.HeaderTextColor \o call.HeaderText
                      \o call.SpacingCharacterColor \o call.SpacingCharacter
                      \o call.LineColor \o line \o RESET
            /\ call.LineCharacterCount < 0 => line = <<>>
            /\ EndsWith(out, RESET)

C10_Witness ==
    /\ Returned("Header")
    /\ call.LineCharacterCount = 3
    /\ call.LineCharacter = <<"=">>
    /\ call.HeaderText = <<"H", "I">>
    /\ out = call.LineColor \o <<"=", "=", "=">> \o call.SpacingCharacterColor
             \o <<" ">> \o call.HeaderTextColor \o <<"H", "I">>
             \o call.SpacingCharacterColor \o <<" ">> \o call.LineColor
             \o <<"=", "=", "=">> \o RESET

----------------------------------------------------------------------------
(* Vocabulary of the PrintTypingTextEffect and PrintSpinner properties *)

IsPrefix(s, t) == Len(s) <= Len(t) /\ SubSeq(t, 1, Len(s)) = s

\* the call never started typing
TypingRejected == cout = <<>> /\ sleeps = <<>>

\* the call typed all of Text with both delay bounds set to one of them
TypingClamped ==
    /\ cout = call.Text
    /\ \E b \in {call.MinDelayMilliseconds, call.MaxDelayMilliseconds} :
          \A i \in 1..Len(sleeps) : sleeps[i] = b

----------------------------------------------------------------------------
(* C11 as stated: PrintTypingTextEffect called with MinDelayMilliseconds   *)
(* above MaxDelayMilliseconds ends rejected or with clamped bounds, never  *)
(* crashed or with delays from elsewhere; called with Min <= Max it writes *)
(* the characters of Text in order, one per step, each with a delay in     *)
(* [Min, Max].                                                             *)
C11_DelayBounds ==
    call.fn = "PrintTypingTextEffect" =>
        LET min == call.MinDelayMilliseconds
            max == call.MaxDelayMilliseconds
        IN  /\ min > max =>
                /\ pc # "crashed"
                /\ pc = "done" => TypingRejected \/ TypingClamped
            /\ min <= max =>
                /\ IsPrefix(cout, call.Text)
                /\ Len(sleeps) = Len(cout)
                /\ \A i \in 1..Len(sleeps) : sleeps[i] \in min..max
                /\ pc = "done" => cout = call.Text

----------------------------------------------------------------------------
(* C12: PrintSpinner draws the frames | / - \ in this cyclic order, each    *)
(* after a carriage return and followed by a sleep of SpinSpeedMs and a     *)
(* check of the elapsed monotonic time; every check but the last finds      *)
(* elapsed < SpinDurationMs, the last finds elapsed >= SpinDurationMs, and  *)
(* only after it, once and as the last output, come the blank overwriting   *)
(* the spinner and the newline.  With an advancing clock the call returns.  *)
SpinnerFrames(n) == [i \in 1..(2 * n) |-> IF i % 2 = 1 THEN "\r" ELSE <<"|", "/", "-", "\\">>[(((i \div 2) - 1) % 4) + 1]]

SpinnerOrder ==
    call.fn = "PrintSpinner" =>
        LET n == Len(checks)
        IN  /\ Len(sleeps) = n
            /\ \A k \in 1..n : sleeps[k] = call.SpinSpeedMs
            /\ \A k \in 1..(n - 1) :
                  checks[k] < call.SpinDurationMs /\ checks[k] <= checks[k + 1]
            /\ pc = "start" => n = 0 /\ cout = <<>>
            /\ pc = "spinning" =>
                  /\ n >= 1 /\ checks[n] < call.SpinDurationMs
                  /\ cout = SpinnerFrames(n)
            /\ pc = "clearing" =>
                  /\ n >= 1 /\ checks[n] >= call.SpinDurationMs
                  /\ cout = SpinnerFrames(n)
            /\ pc = "done" =>
                  /\ n >= 1 /\ checks[n] >= call.SpinDurationMs
                  /\ cout = SpinnerFrames(n) \o <<"\r", " ", "\n">>

C12_SpinnerRunsToDuration ==
    /\ []SpinnerOrder
    /\ (call.fn = "PrintSpinner") ~> (pc = "done")

C12_Witness ==
    /\ Returned("PrintSpinner")
    /\ Len(checks) = 6
    /\ call.SpinDurationMs = 5
    /\ checks[5] = 4 /\ checks[6] = 5
    /\ cout = <<"\r", "|", "\r", "/", "\r", "-", "\r", "\\", "\r", "|",
                "\r", "/", "\r", " ", "\n">>

----------------------------------------------------------------------------
(* C13: for a non-empty options list PromptNumberedMenu has written, when   *)
(* it makes its first read, PromptMessage, then every option in list order  *)
(* as <i+1><separator><option text> (numbered from 1), then                 *)
(* InputQuestionText; each option's line is written exactly once in the     *)
(* call, also after an invalid input.                                       *)
OptionLine(k) == call.NumberColor \o to_string(k) \o call.SeperatorColor \o call.SeperatorCharacter \o call.OptionColor \o call.Options[k] \o RESET \o <<"\n">>

RECURSIVE Listing(_)
Listing(n) == IF n = 0 THEN <<>> ELSE Listing(n - 1) \o OptionLine(n)

MenuPreamble ==
    call.MessageColor \o call.PromptMessage \o <<"\n">>
    \o Listing(Len(call.Options))
    \o call.InputQuestionColor \o <<"\n">> \o call.InputQuestionText
    \o call.NumberColor

\* number of places where t occurs in s
Occurrences(s, t) ==
    Cardinality({i \in 1..(Len(s) - Len(t) + 1) : SubSeq(s, i, i + Len(t) - 1) = t})

C13_ListingOnceBeforeRead ==
    call.fn = "PromptNumberedMenu" /\ call.Options # <<>> =>
        /\ pc = "start" => cout = <<>> /\ reads = 0
        /\ pc = "await_input" => cout = MenuPreamble /\ reads = 0
        /\ pc = "done" =>
              /\ IsPrefix(MenuPreamble, cout)
              /\ \A k \in 1..Len(call.Options) :
                    Occurrences(cout, call.NumberColor \o to_string(k)
                                      \o call.SeperatorColor) = 1
              /\ Occurrences(cout, call.MessageColor \o call.PromptMessage) = 1
              /\ Occurrences(cout, call.InputQuestionText) = 1

C13_Witness ==
    /\ MenuReturned
    /\ Len(call.Options) = 2
    /\ call.stdin = <<<<"a", "b", "c">>, <<"2">>>>
    /\ ret = <<-1>>
    /\ IsPrefix(call.MessageColor \o <<"P", "\n">>
                \o call.NumberColor \o <<"1">> \o call.SeperatorColor
                \o <<":", " ">> \o call.OptionColor \o <<"A">> \o RESET \o <<"\n">>
                \o call.NumberColor \o <<"2">> \o call.SeperatorColor
                \o <<":", " ">> \o call.OptionColor \o <<"B">> \o RESET \o <<"\n">>
                \o call.InputQuestionColor \o <<"\n", "Q">> \o call.NumberColor,
                cout)

----------------------------------------------------------------------------
(* C14: for ProgressBar and for AdvancedProgressBar, with a maximum other   *)
(* than 0 (negative ones included) and any current value, a BarWidth >= 0   *)
(* gives a body of f filled cells followed by BarWidth - f unfilled cells   *)
(* for some 0 <= f <= BarWidth, so exactly BarWidth cells; a BarWidth < 0   *)
(* gives an empty body.                                                     *)
Cells(s) == CountChar(s, "#") + CountChar(s, "-")

FilledChoices == 0..(IF call.BarWidth < 0 THEN 0 ELSE call.BarWidth)

C14_BodyHasWidthCells ==
    /\ Returned("ProgressBar") /\ call.MaxProgress # 0 =>
          /\ Cells(out) = IF call.BarWidth < 0 THEN 0 ELSE call.BarWidth
          /\ \E f \in FilledChoices :
                IsPrefix(call.BarColor \o Rep(<<"#">>, f)
                         \o Rep(<<"-">>, call.BarWidth - f) \o RESET, out)
    /\ Returned("AdvancedProgressBar") /\ call.MaxPercentage # 0 =>
          /\ Cells(out) = IF call.BarWidth < 0 THEN 0 ELSE call.BarWidth
          /\ \E f \in FilledChoices :
                Contains(out, call.FillColor \o Rep(call.FillChar, f)
                              \o call.UnfilledColor
                              \o Rep(call.UnfilledChar, call.BarWidth - f))

C14_Witness ==
    /\ Returned("AdvancedProgressBar")
    /\ call.MaxPercentage = -2 /\ call.CurrentPercentage = 1 /\ call.BarWidth = 2
    /\ Cells(out) = 2
    /\ Contains(out, call.FillColor \o <<"#", "#">> \o call.UnfilledColor)

----------------------------------------------------------------------------
(* C15: whatever std::cin holds, PromptNumberedMenu returns -1 or an index  *)
(* i with 0 <= i < Options.size(), and an index only when the line it read  *)
(* parsed to the integer i + 1 in [1, Options.size()]; so a caller that     *)
(* tests choice != -1 indexes the options within bounds.                    *)
C15_ReturnIsSentinelOrIndex ==
    MenuReturned =>
        /\ Len(ret) = 1
        /\ \/ ret[1] = -1
           \/ /\ ret[1] \in 0..(Len(call.Options) - 1)
              /\ reads = 1
              /\ call.stdin # <<>>
              /\ stoi(call.stdin[1]) = [kind |-> "ok", value |-> ret[1] + 1]
        /\ ret[1] # -1 => ret[1] + 1 \in DOMAIN call.Options

C15_Witness ==
    /\ MenuReturned
    /\ Len(call.Options) = 2
    /\ call.stdin # <<>>
    /\ call.stdin[1] = <<" ", "2">>
    /\ ret = <<1>>

----------------------------------------------------------------------------
(* C16: every call of PromptNumberedMenu returns, having taken at most one  *)
(* line from std::cin, whatever the input: valid, invalid, out of range or  *)
(* exhausted; a stream of invalid lines does not keep it running.           *)
LinesConsumed == Len(call.stdin) - Len(cin)

\* the steps the call still has to make, at most
MenuRank == CASE pc = "start" -> 2 [] pc = "await_input" -> 1 [] OTHER -> 0

AtMostOneLine ==
    call.fn = "PromptNumberedMenu" =>
        /\ reads <= 1
        /\ LinesConsumed <= 1
        /\ cin = call.stdin \/ cin = Tail(call.stdin)
        /\ pc = "done" /\ call.Options # <<>> => reads = 1
        /\ pc \in {"start", "await_input", "done"}

\* every step of the call brings its return nearer (none leads back to the
\* read), so no run of the call has more than two steps
C16_ReturnsAfterOneLine ==
    /\ []AtMostOneLine
    /\ [][call.fn = "PromptNumberedMenu" => MenuRank' < MenuRank]_vars

C16_Witness ==
    /\ MenuReturned
    /\ Len(call.Options) = 2
    /\ call.stdin = <<<<"a", "b", "c">>, <<"-", "1">>>>
    /\ cin = <<<<"-", "1">>>>
    /\ ret = <<-1>>

----------------------------------------------------------------------------
(* C17: for the same current, maximum (other than 0, negative ones         *)
(* included) and width, ProgressBar and AdvancedProgressBar clamp current   *)
(* to the same value and render the same filled cells, unfilled cells and   *)
(* percentage: the order of the two clamp tests makes no difference.        *)

\* AdvancedProgressBar drawing ProgressBar's bar: '#' and '-', BarColor
\* before the cells, no prefix, suffix, brackets or percentage, RESET after
AdvancedBody ==
    AdvancedProgressBar(call.CurrentProgress, call.MaxProgress, call.BarWidth,
                        <<>>, <<>>, <<"#">>, <<"-">>, call.BarColor, <<>>,
                        <<>>, <<>>, <<>>, <<>>, FALSE, FALSE, TRUE)

\* AdvancedProgressBar's percentage text alone, " <n>%": a bar of no cells
AdvancedPercentage ==
    AdvancedProgressBar(call.CurrentProgress, call.MaxProgress, 0,
                        <<>>, <<>>, <<"#">>, <<"-">>, <<>>, <<>>,
                        <<>>, <<>>, <<>>, <<>>, TRUE, FALSE, FALSE)

C17_SameClampSameBar ==
    Returned("ProgressBar") /\ call.MaxProgress # 0 =>
        /\ ProgressBarClamp(call.CurrentProgress, call.MaxProgress)
             = AdvancedProgressBarClamp(call.CurrentProgress, call.MaxProgress)
        /\ out = AdvancedBody
                 \o (IF call.ShowPercentage
                     THEN <<" ">> \o call.PercentageColor
                          \o Tail(AdvancedPercentage) \o RESET
                     ELSE <<>>)

====
